---- MODULE Spec2Model ----
(***************************************************************************)
(* A chat node (server/server.py, class ChatServer) as a state machine.    *)
(* One thread per accepted socket (route_connection, then handle_client or *)
(* handle_peer), one connector thread per configured peer, three shared    *)
(* tables (clients, peer_sockets, seen) each under its own lock, and the   *)
(* append-only log of logger.py.  A lock-protected block is one atomic     *)
(* step; a blocking recv is merged with the block that follows it.         *)
(***************************************************************************)
EXTENDS Integers, Sequences, FiniteSets, TLC

\* ------------------------------------------------------------- bounds
MaxMsgs == 4
MaxPeerMsgs == 2
MaxClock == 1

\* ------------------------------------------------------------- universe
Node == {"A", "B", "C"}
PidOrder == <<"A", "B", "C">>
NameOrder == <<"alice", "bob", "carol">>
Names == {NameOrder[i] : i \in DOMAIN NameOrder}
RawNames == {"", " ", "alice", "bob"}
Texts == {"hi"}
NoName == ""
NoSock == "none"
NoPid == "-"

AccName == <<"a1", "a2">>
AccSocks == {AccName[i] : i \in DOMAIN AccName}
OutSocks == {"oAB", "oAC", "oBA", "oBC"}
TwoSocks == {"ca", "cb", "cc", "ia", "ib", "ic"}
AllSocks == AccSocks \cup OutSocks \cup TwoSocks

OutSock(n, p) ==
  IF n = "A" /\ p = "B" THEN "oAB"
  ELSE IF n = "A" /\ p = "C" THEN "oAC"
  ELSE IF n = "B" /\ p = "A" THEN "oBA"
  ELSE IF n = "B" /\ p = "C" THEN "oBC"
  ELSE NoSock

Range(s) == {s[i] : i \in DOMAIN s}

\* ------------------------------------------------------------- messages
NoRec == [type |-> "none"]
Empty == [type |-> "empty"]
Malformed == [type |-> "malformed"]
Quit == [type |-> "quit"]
Other == [type |-> "other"]
Login(u) == [type |-> "login", username |-> u]
Msg(t) == [type |-> "msg", text |-> t]
Hello(p) == [type |-> "hello", from_server |-> p]

ClientMsgs ==
  {Login(u) : u \in RawNames} \cup {Msg(t) : t \in Texts}
    \cup {Quit, Other, Empty, Malformed}

\* what a logged-in client sends in the second loop: chat, quit, a line that
\* is not JSON, and Other for every type the loop ignores
ChatMsgs == {Msg(t) : t \in Texts} \cup {Quit, Other, Malformed}

\* str.strip() on the raw usernames of the model
Strip(u) == IF u \in {"", " "} THEN "" ELSE u

Joined(u) == [type |-> "system", text |-> <<u, "joined the chat">>]
Left(u) == [type |-> "system", text |-> <<u, "left the chat">>]

\* the record built at server.py:125-131; id is a ghost serial number
Record(u, n, t, ts, i) ==
  [type |-> "msg", from |-> u, server |-> n, text |-> t, timestamp |-> ts, id |-> i]

\* forward_to_peers' relay_packet, server.py:306-312
RelayPacket(r) ==
  [type |-> "relay_msg", from |-> r.from, origin_server |-> r.server,
   text |-> r.text, timestamp |-> r.timestamp, id |-> r.id]

\* handle_peer's dedupe key, server.py:264-269
Fingerprint(m) == <<m.origin_server, m.timestamp, m.from, m.text>>

\* handle_peer's local_record, server.py:278-284
LocalRecord(m) ==
  [type |-> "msg", from |-> m.from, server |-> m.origin_server,
   text |-> m.text, timestamp |-> m.timestamp, id |-> m.id]

\* SharedLogger.log, logger.py:52-53: the line written is the record with the
\* time of the append added
LogLine(r, t) ==
  [type |-> r.type, from |-> r.from, server |-> r.server, text |-> r.text,
   timestamp |-> r.timestamp, id |-> r.id, logged_at |-> t]

\* the dedupe key of a record or of a log line
RecFingerprint(r) == <<r.server, r.timestamp, r.from, r.text>>

\* what a remote peer outside the model may send on a link
EnvPackets ==
  {[type |-> "relay_msg", from |-> "zed", origin_server |-> "B",
    text |-> "hi", timestamp |-> ts, id |-> 0] : ts \in {0, 1}}
PeerMsgs == EnvPackets \cup {Other, Malformed}

\* ------------------------------------------------------------- state
VARIABLES
  cap,            \* how many messages the environment sends in all
  own,            \* socket -> node whose thread holds it
  remote,         \* socket -> other end inside the model, or NoSock
  pc,             \* socket -> position of the thread serving it
  sst,            \* socket -> "open" | "broken" | "closed"
  username,       \* handle_client's local username (NoName for None)
  loop,           \* handle_client: "iter" | "stream" (first loop) | "second"
  cur,            \* record the thread is processing
  pid,            \* handle_peer's pid argument
  inq,            \* socket -> packets in flight towards it
  clients,        \* node -> self.clients
  peer_sockets,   \* node -> self.peer_sockets
  seen,           \* node -> self.seen
  logfile,        \* node -> lines appended by SharedLogger.log
  cpc,            \* node -> peer -> position of peer_connector
  reachable,      \* peer -> whether a connect to it succeeds
  retried,        \* ghost: node -> peers whose connector has slept and looped
  clock,          \* time.time()
  nmsg,           \* messages read from the environment so far (all sockets)
  nextId,         \* ghost serial of the next chat record
  last,           \* ghost: the last message read, and the socket it was read from
  reply,          \* ghost: the last reply a handler sent to its own socket
  bc,             \* ghost: the last broadcast_local call
  fw,             \* ghost: the last forward_to_peers call
  got,            \* ghost: socket -> ids of the chat records delivered to it
  conv,           \* ghost: node -> records handle_peer broadcast, in order
  skipped,        \* ghost: node -> relay packets handle_peer skipped as seen
  rejected,       \* ghost: sockets whose handler has rejected a login
  dropped,        \* ghost: socket -> lines decoded into a generator's buffer and
                  \*        thrown away with the generator
  lock,           \* lock -> the thread that holds it, or NoSock
  at,             \* thread -> the `with` block it is in and how far, or Outside
  touched         \* ghost: the last access to a shared table

sockvars == <<cap, own, remote, pc, sst, username, loop, cur, pid, inq>>
tabvars == <<clients, peer_sockets, seen, logfile>>
connvars == <<cpc, reachable, retried>>
histvars == <<last, reply, bc, fw, got, conv, skipped, rejected, dropped>>
lockvars == <<lock, at, touched>>
vars == <<sockvars, tabvars, connvars, clock, nmsg, nextId, histvars, lockvars>>

NoBc == [by |-> NoSock, rec |-> NoRec, exclude |-> NoName, before |-> {},
         attempts |-> <<>>, dead |-> <<>>, sent |-> <<>>]
NoFw == [by |-> NoSock, rec |-> NoRec, before |-> {}, attempts |-> <<>>, failed |-> <<>>]
NoLast == [by |-> NoSock, msg |-> NoRec]
NoReply == [to |-> NoSock, text |-> "none"]

\* the ghost variables describe the step just taken and nothing older
NoRead == last' = NoLast
NoAnswer == reply' = NoReply
Silent == last' = NoLast /\ reply' = NoReply
  /\ bc' = NoBc /\ fw' = NoFw

\* ------------------------------------------------------------- locks

\* the three threading.Lock objects of a node and the tables they guard
Locks == {"clients_lock", "peer_lock", "seen_lock"}
Tables == {"clients", "peer_sockets", "seen"}

\* __init__ creates each table together with its lock
TableLock(t) ==
  CASE t = "clients" -> "clients_lock"
    [] t = "peer_sockets" -> "peer_lock"
    [] t = "seen" -> "seen_lock"

\* peer_connector threads; the thread that handles socket s is named s
Connectors == {"kB"}
Threads == AllSocks \cup Connectors

\* the `with` blocks of server.py
Blocks == {"login", "fin_pop", "broadcast", "conn_register", "seen_check",
           "peer_fin", "forward", "route_register"}

Outside == [block |-> "none", done |-> FALSE]
NoTouch == [by |-> NoSock, table |-> "none", held |-> {}]

\* socket.sendall on s succeeds
SendOk(s) == sst[s] = "open"

\* ------------------------------------------------------------- tables
Registered(n) == {u \in Names : clients[n][u] # NoSock}
Items(reg) == SelectSeq(NameOrder, LAMBDA u : reg[u] # NoSock)
PeerItems(tab) == SelectSeq(PidOrder, LAMBDA p : tab[p] # NoSock)

\* mutant: the first failed send ends the iteration
RECURSIVE BroadcastIter_abort(_, _, _, _)
BroadcastIter_abort(items, reg, exclude, acc) ==
  IF items = <<>> THEN acc
  ELSE LET uname == Head(items) IN
    IF uname = exclude THEN BroadcastIter_abort(Tail(items), reg, exclude, acc)
    ELSE IF SendOk(reg[uname])
      THEN BroadcastIter_abort(Tail(items), reg, exclude,
                               [acc EXCEPT !.attempts = Append(@, uname),
                                           !.sent = Append(@, reg[uname])])
      ELSE [acc EXCEPT !.attempts = Append(@, uname), !.dead = Append(@, uname)]

RECURSIVE BroadcastIter(_, _, _, _)
BroadcastIter(items, reg, exclude, acc) ==
  IF items = <<>> THEN acc
  ELSE LET uname == Head(items) IN
    IF uname = exclude THEN BroadcastIter(Tail(items), reg, exclude, acc)
    ELSE IF SendOk(reg[uname])
      THEN BroadcastIter(Tail(items), reg, exclude,
                         [acc EXCEPT !.attempts = Append(@, uname),
                                     !.sent = Append(@, reg[uname])])
      ELSE BroadcastIter(Tail(items), reg, exclude,
                         [acc EXCEPT !.attempts = Append(@, uname),
                                     !.dead = Append(@, uname)])

\* mutant: the exclude argument is not honoured by the iteration
broadcast_local_all(n, rec, exclude) ==
  LET r == BroadcastIter(Items(clients[n]), clients[n], NoName,
                         [attempts |-> <<>>, dead |-> <<>>, sent |-> <<>>])
  IN [reg |-> [u \in Names |-> IF u \in Range(r.dead) THEN NoSock ELSE clients[n][u]],
      call |-> [by |-> NoSock, rec |-> rec, exclude |-> exclude, before |-> Registered(n),
                attempts |-> r.attempts, dead |-> r.dead, sent |-> r.sent]]

\* broadcast_local(record, exclude): the registry after it, and what it did
broadcast_local(n, rec, exclude) ==
  LET r == BroadcastIter(Items(clients[n]), clients[n], exclude,
                         [attempts |-> <<>>, dead |-> <<>>, sent |-> <<>>])
  IN [reg |-> [u \in Names |-> IF u \in Range(r.dead) THEN NoSock ELSE clients[n][u]],
      call |-> [by |-> NoSock, rec |-> rec, exclude |-> exclude, before |-> Registered(n),
                attempts |-> r.attempts, dead |-> r.dead, sent |-> r.sent]]

RECURSIVE ForwardIter(_, _, _)
ForwardIter(items, tab, acc) ==
  IF items = <<>> THEN acc
  ELSE LET p == Head(items) IN
    IF SendOk(tab[p])
      THEN ForwardIter(Tail(items), tab, [acc EXCEPT !.attempts = Append(@, p)])
      ELSE ForwardIter(Tail(items), tab,
                       [acc EXCEPT !.attempts = Append(@, p),
                                   !.failed = Append(@, p)])

\* mutant: a link whose send failed stays in the peer table
forward_to_peers_keep(n, rec) ==
  LET r == ForwardIter(PeerItems(peer_sockets[n]), peer_sockets[n],
                       [attempts |-> <<>>, failed |-> <<>>])
  IN [tab |-> peer_sockets[n],
      sent |-> {peer_sockets[n][p] : p \in Range(r.attempts) \ Range(r.failed)},
      call |-> [by |-> NoSock, rec |-> rec, before |-> Range(PeerItems(peer_sockets[n])),
                attempts |-> r.attempts, failed |-> r.failed]]

\* forward_to_peers(record): the peer table after it, and what it did
forward_to_peers(n, rec) ==
  LET r == ForwardIter(PeerItems(peer_sockets[n]), peer_sockets[n],
                       [attempts |-> <<>>, failed |-> <<>>])
  IN [tab |-> [p \in Node |-> IF p \in Range(r.failed) THEN NoSock
                              ELSE peer_sockets[n][p]],
      sent |-> {peer_sockets[n][p] : p \in Range(r.attempts) \ Range(r.failed)},
      call |-> [by |-> NoSock, rec |-> rec, before |-> Range(PeerItems(peer_sockets[n])),
                attempts |-> r.attempts, failed |-> r.failed]]

\* the packets a send on each socket of `socks` puts in flight
Deliver(socks, pkt) ==
  [s \in AllSocks |->
     IF \E t \in socks : remote[t] = s THEN Append(inq[s], pkt) ELSE inq[s]]

\* ------------------------------------------------------------- handle_client
Budget == nmsg < cap

\* the thread of s has read message m
Read(s, m) ==
  /\ nmsg' = nmsg + 1
  /\ last' = [by |-> s, msg |-> m]

\* a for loop over iter([first_msg]) is exhausted after its one iteration
NextLoop(l) == IF l = "iter" THEN "second" ELSE l

SetPcLoop(s, p, l) ==
  /\ pc' = [pc EXCEPT ![s] = p]
  /\ loop' = [loop EXCEPT ![s] = l]

\* send_json(csock, error/system) by the handler itself: a failure raises, and
\* the bare except leads to the finally block
ReplyOrFail(s, text, l) ==
  IF SendOk(s)
    THEN reply' = [to |-> s, text |-> text] /\ SetPcLoop(s, "c_recv", NextLoop(l))
    ELSE NoAnswer /\ SetPcLoop(s, "f_pop", l)

\* mutant: the registry is written without the membership test
handle_login_overwrite(s, m, l) ==
  LET n == own[s]
      requested_name == Strip(m.username)
  IN /\ UNCHANGED <<cur, nextId>>
     /\ IF requested_name = NoName
          THEN /\ ReplyOrFail(s, "username required", l)
               /\ rejected' = rejected \cup {s}
               /\ UNCHANGED <<clients, username>>
          ELSE /\ clients' = [clients EXCEPT ![n][requested_name] = s]
               /\ username' = [username EXCEPT ![s] = requested_name]
               /\ SetPcLoop(s, "c_welcome", l)
               /\ NoAnswer
               /\ rejected' = rejected

\* server.py:95-108
handle_login(s, m, l) ==
  LET n == own[s]
      requested_name == Strip(m.username)
  IN /\ UNCHANGED <<cur, nextId>>
     /\ IF requested_name = NoName
          THEN /\ ReplyOrFail(s, "username required", l)
               /\ rejected' = rejected \cup {s}
               /\ UNCHANGED <<clients, username>>
          ELSE IF clients[n][requested_name] # NoSock
            THEN /\ ReplyOrFail(s, "username taken", l)
                 /\ rejected' = rejected \cup {s}
                 /\ UNCHANGED <<clients, username>>
            ELSE /\ clients' = [clients EXCEPT ![n][requested_name] = s]
                 /\ username' = [username EXCEPT ![s] = requested_name]
                 /\ SetPcLoop(s, "c_welcome", l)
                 /\ NoAnswer
                 /\ rejected' = rejected

\* server.py:122-131 and 155-164: the record is built, then broadcast
handle_msg(s, m, l) ==
  /\ cur' = [cur EXCEPT ![s] = Record(username[s], own[s], m.text, clock, nextId)]
  /\ nextId' = nextId + 1
  /\ SetPcLoop(s, "c_bcast", l)
  /\ NoAnswer
  /\ UNCHANGED <<clients, username, rejected>>

\* the first loop without the `and username` of line 122
FirstLoopBody_anymsg(s, m, l) ==
  IF m.type = "login" THEN handle_login(s, m, l)
  ELSE IF m.type = "msg" THEN handle_msg(s, m, l)
  ELSE IF m.type = "quit"
    THEN /\ SetPcLoop(s, "c_recv", "second")
         /\ NoAnswer
         /\ UNCHANGED <<clients, username, cur, nextId, rejected>>
  ELSE /\ ReplyOrFail(s, "invalid request", l)
       /\ UNCHANGED <<clients, username, cur, nextId, rejected>>

\* one iteration of the first loop, server.py:91-148
FirstLoopBody(s, m, l) ==
  IF m.type = "login" THEN handle_login(s, m, l)
  ELSE IF m.type = "msg" /\ username[s] # NoName THEN handle_msg(s, m, l)
  ELSE IF m.type = "quit"
    THEN /\ SetPcLoop(s, "c_recv", "second")
         /\ NoAnswer
         /\ UNCHANGED <<clients, username, cur, nextId, rejected>>
  ELSE /\ ReplyOrFail(s, "invalid request", l)
       /\ UNCHANGED <<clients, username, cur, nextId, rejected>>

\* one iteration of the second loop, server.py:151-171
SecondLoopBody(s, m) ==
  IF m.type = "msg" /\ username[s] # NoName THEN handle_msg(s, m, "second")
  ELSE IF m.type = "quit"
    THEN /\ SetPcLoop(s, "f_pop", "second")
         /\ NoAnswer
         /\ UNCHANGED <<clients, username, cur, nextId, rejected>>
  ELSE /\ NoAnswer
       /\ UNCHANGED <<pc, loop, clients, username, cur, nextId, rejected>>

\* Accepted sockets are interchangeable: they are numbered in the order in
\* which their router threads take their first step.
Turn(s) ==
  \A i \in DOMAIN AccName : \A j \in DOMAIN AccName :
    (s = AccName[j] /\ i < j) => pc[AccName[i]] # "route"

\* route_connection, server.py:325-344: the first recv returns a chunk whose
\* first line is m and whose further complete lines are rest.  next() takes m
\* from a generator that nobody keeps: the lines left in its buffer (rest)
\* go with it, and the handler that takes over reads the socket afresh.
RouteChunk(s, m, rest) ==
  /\ pc[s] = "route" /\ sst[s] = "open" /\ remote[s] = NoSock /\ Budget /\ Turn(s)
  /\ Read(s, m)
  /\ dropped' = IF m.type = "malformed" THEN dropped ELSE [dropped EXCEPT ![s] = rest]
  /\ IF m.type = "malformed"
       THEN /\ pc' = [pc EXCEPT ![s] = "done"]
            /\ sst' = [sst EXCEPT ![s] = "closed"]
            /\ NoAnswer
            /\ UNCHANGED <<loop, clients, username, cur, nextId, peer_sockets, pid,
                           rejected>>
     ELSE IF m.type = "hello"
       THEN /\ peer_sockets' = [peer_sockets EXCEPT ![own[s]][m.from_server] = s]
            /\ pid' = [pid EXCEPT ![s] = m.from_server]
            /\ pc' = [pc EXCEPT ![s] = "p_recv"]
            /\ NoAnswer
            /\ UNCHANGED <<sst, loop, clients, username, cur, nextId, rejected>>
     ELSE IF m = Empty
       THEN /\ SetPcLoop(s, "c_recv", "stream")
            /\ NoAnswer
            /\ UNCHANGED <<sst, clients, username, cur, nextId, peer_sockets, pid,
                           rejected>>
     ELSE /\ FirstLoopBody(s, m, "iter")
          /\ UNCHANGED <<sst, peer_sockets, pid>>
  /\ UNCHANGED <<cap, own, remote, inq, seen, logfile, connvars, clock, got, conv, skipped, lockvars>>
  /\ bc' = NoBc /\ fw' = NoFw

\* route_connection when the first chunk holds the first line and no more
Route(s, m) == RouteChunk(s, m, <<>>)

\* the first recv of route_connection fails or returns end of stream
RouteEof(s) ==
  /\ pc[s] = "route" /\ sst[s] = "broken"
  /\ pc' = [pc EXCEPT ![s] = "done"]
  /\ sst' = [sst EXCEPT ![s] = "closed"]
  /\ UNCHANGED <<cap, own, remote, username, loop, cur, pid, inq, tabvars, connvars, clock,
                 nmsg, nextId, got, conv, skipped, rejected, dropped, lockvars>>
  /\ Silent

\* the next message of either loop of handle_client
ClientRecv(s, m) ==
  /\ pc[s] = "c_recv" /\ sst[s] = "open" /\ Budget
  /\ Read(s, m)
  /\ IF m.type = "malformed"
       THEN /\ SetPcLoop(s, "f_pop", loop[s])
            /\ NoAnswer
            /\ UNCHANGED <<clients, username, cur, nextId, rejected>>
     ELSE IF loop[s] = "stream" THEN FirstLoopBody(s, m, "stream")
     ELSE SecondLoopBody(s, m)
  /\ UNCHANGED <<cap, own, remote, sst, pid, inq, peer_sockets, seen, logfile, connvars,
                 clock, got, conv, skipped, dropped, lockvars>>
  /\ bc' = NoBc /\ fw' = NoFw

\* recv returns b"" or raises: both loops end and the finally block runs
ClientEof(s) ==
  /\ pc[s] = "c_recv" /\ sst[s] = "broken"
  /\ pc' = [pc EXCEPT ![s] = "f_pop"]
  /\ UNCHANGED <<cap, own, remote, sst, username, loop, cur, pid, inq, tabvars, connvars,
                 clock, nmsg, nextId, got, conv, skipped, rejected, dropped, lockvars>>
  /\ Silent

\* server.py:110-113
ClientWelcome(s) ==
  /\ pc[s] = "c_welcome"
  /\ IF SendOk(s)
       THEN reply' = [to |-> s, text |-> "welcome"] /\ pc' = [pc EXCEPT ![s] = "c_join"]
       ELSE NoAnswer /\ pc' = [pc EXCEPT ![s] = "f_pop"]
  /\ UNCHANGED <<cap, own, remote, sst, username, loop, cur, pid, inq, tabvars, connvars,
                 clock, nmsg, nextId, got, conv, skipped, rejected, dropped, lockvars>> /\ last' = NoLast
  /\ bc' = NoBc /\ fw' = NoFw

RECURSIVE Receive(_, _, _)
Receive(g, sent, i) ==
  IF sent = <<>> THEN g
  ELSE Receive([g EXCEPT ![Head(sent)] = Append(@, i)], Tail(sent), i)

\* a broadcast_local call by the thread of s
DoBroadcast(s, rec, exclude) ==
  LET b == broadcast_local(own[s], rec, exclude)
  IN /\ clients' = [clients EXCEPT ![own[s]] = b.reg]
     /\ bc' = [b.call EXCEPT !.by = s]
     /\ got' = IF rec.type = "msg" THEN Receive(got, b.call.sent, rec.id) ELSE got

\* server.py:115-118
ClientJoin(s) ==
  /\ pc[s] = "c_join"
  /\ DoBroadcast(s, Joined(username[s]), username[s])
  /\ SetPcLoop(s, "c_recv", NextLoop(loop[s]))
  /\ UNCHANGED <<cap, own, remote, sst, username, cur, pid, inq, peer_sockets, seen, logfile,
                 connvars, clock, nmsg, nextId, conv, skipped, rejected, dropped, lockvars>>
  /\ NoRead /\ NoAnswer /\ fw' = NoFw

\* server.py:134 and 166
ClientBcast(s) ==
  /\ pc[s] = "c_bcast"
  /\ DoBroadcast(s, cur[s], NoName)
  /\ pc' = [pc EXCEPT ![s] = "c_fwd"]
  /\ UNCHANGED <<cap, own, remote, sst, username, loop, cur, pid, inq, peer_sockets, seen,
                 logfile, connvars, clock, nmsg, nextId, conv, skipped, rejected, dropped,
                 lockvars>>
  /\ NoRead /\ NoAnswer /\ fw' = NoFw

\* server.py:137 and 167
ClientFwd(s) ==
  /\ pc[s] = "c_fwd"
  /\ LET f == forward_to_peers(own[s], cur[s])
     IN /\ peer_sockets' = [peer_sockets EXCEPT ![own[s]] = f.tab]
        /\ inq' = Deliver(f.sent, RelayPacket(cur[s]))
        /\ fw' = [f.call EXCEPT !.by = s]
  /\ pc' = [pc EXCEPT ![s] = "c_log"]
  /\ UNCHANGED <<cap, own, remote, sst, username, loop, cur, pid, clients, seen, logfile,
                 connvars, clock, nmsg, nextId, got, conv, skipped, rejected, dropped, lockvars>>
  /\ NoRead /\ NoAnswer /\ bc' = NoBc

\* server.py:140 and 168, logger.py:48-63: the append, or an OSError that the
\* bare except of handle_client turns into the finally block
ClientLog(s) ==
  /\ pc[s] = "c_log"
  /\ \/ /\ logfile' = [logfile EXCEPT ![own[s]] = Append(@, LogLine(cur[s], clock))]
        /\ pc' = [pc EXCEPT ![s] = "c_recv"]
     \/ /\ logfile' = logfile
        /\ pc' = [pc EXCEPT ![s] = "f_pop"]
  /\ cur' = [cur EXCEPT ![s] = NoRec]
  /\ UNCHANGED <<cap, own, remote, sst, username, loop, pid, inq, clients, peer_sockets,
                 seen, connvars, clock, nmsg, nextId, got, conv, skipped, rejected, dropped,
                 lockvars>>
  /\ Silent

\* mutant: the finally block does not pop the username
ClientFinPop_nopop(s) ==
  /\ pc[s] = "f_pop"
  /\ clients' = clients
  /\ IF username[s] # NoName
       THEN /\ pc' = [pc EXCEPT ![s] = "f_bcast"]
            /\ sst' = sst
       ELSE /\ pc' = [pc EXCEPT ![s] = "done"]
            /\ sst' = [sst EXCEPT ![s] = "closed"]
  /\ UNCHANGED <<cap, own, remote, username, loop, cur, pid, inq, peer_sockets, seen,
                 logfile, connvars, clock, nmsg, nextId, got, conv, skipped, rejected, dropped,
                 lockvars>>
  /\ Silent

\* server.py:176-179, and 186 when no session was registered
ClientFinPop(s) ==
  /\ pc[s] = "f_pop"
  /\ IF username[s] # NoName
       THEN /\ clients' = [clients EXCEPT ![own[s]][username[s]] = NoSock]
            /\ pc' = [pc EXCEPT ![s] = "f_bcast"]
            /\ sst' = sst
       ELSE /\ clients' = clients
            /\ pc' = [pc EXCEPT ![s] = "done"]
            /\ sst' = [sst EXCEPT ![s] = "closed"]
  /\ UNCHANGED <<cap, own, remote, username, loop, cur, pid, inq, peer_sockets, seen,
                 logfile, connvars, clock, nmsg, nextId, got, conv, skipped, rejected, dropped,
                 lockvars>>
  /\ Silent

\* server.py:181-186
ClientFinBcast(s) ==
  /\ pc[s] = "f_bcast"
  /\ DoBroadcast(s, Left(username[s]), NoName)
  /\ pc' = [pc EXCEPT ![s] = "done"]
  /\ sst' = [sst EXCEPT ![s] = "closed"]
  /\ UNCHANGED <<cap, own, remote, username, loop, cur, pid, inq, peer_sockets, seen,
                 logfile, connvars, clock, nmsg, nextId, conv, skipped, rejected, dropped,
                 lockvars>>
  /\ NoRead /\ NoAnswer /\ fw' = NoFw

\* the far end of an open socket goes away (close, reset)
Drop(s) ==
  /\ pc[s] \notin {"unused", "idle", "done"} /\ sst[s] = "open" /\ Turn(s)
  /\ sst' = [t \in AllSocks |->
               IF t = s \/ (remote[s] # NoSock /\ t = remote[s]) THEN "broken" ELSE sst[t]]
  /\ UNCHANGED <<cap, own, remote, pc, username, loop, cur, pid, inq, tabvars, connvars,
                 clock, nmsg, nextId, got, conv, skipped, rejected, dropped, lockvars>>
  /\ Silent

\* ------------------------------------------------------------- handle_peer
\* mutant: the fingerprint is tested but never added to seen
PeerLoopBody_noadd(s, m) ==
  LET n == own[s] IN
  IF m.type = "malformed"
    THEN /\ pc' = [pc EXCEPT ![s] = "p_fin"]
         /\ UNCHANGED <<seen, cur, skipped, rejected>>
  ELSE IF m.type # "relay_msg" THEN UNCHANGED <<pc, seen, cur, skipped, rejected>>
  ELSE IF Fingerprint(m) \in seen[n]
    THEN /\ skipped' = [skipped EXCEPT ![n] = @ \cup {m}]
         /\ UNCHANGED <<pc, seen, cur>>
  ELSE /\ seen' = seen
       /\ cur' = [cur EXCEPT ![s] = LocalRecord(m)]
       /\ pc' = [pc EXCEPT ![s] = "p_bcast"]
       /\ skipped' = skipped

\* one iteration of handle_peer's loop, server.py:259-284
PeerLoopBody(s, m) ==
  LET n == own[s] IN
  IF m.type = "malformed"
    THEN /\ pc' = [pc EXCEPT ![s] = "p_fin"]
         /\ UNCHANGED <<seen, cur, skipped, rejected>>
  ELSE IF m.type # "relay_msg" THEN UNCHANGED <<pc, seen, cur, skipped, rejected>>
  ELSE IF Fingerprint(m) \in seen[n]
    THEN /\ skipped' = [skipped EXCEPT ![n] = @ \cup {m}]
         /\ UNCHANGED <<pc, seen, cur>>
  ELSE /\ seen' = [seen EXCEPT ![n] = @ \cup {Fingerprint(m)}]
       /\ cur' = [cur EXCEPT ![s] = LocalRecord(m)]
       /\ pc' = [pc EXCEPT ![s] = "p_bcast"]
       /\ skipped' = skipped

\* a message from a peer outside the model
PeerRecv(s, m) ==
  /\ pc[s] = "p_recv" /\ sst[s] = "open" /\ remote[s] = NoSock /\ Budget
  /\ Read(s, m)
  /\ PeerLoopBody(s, m)
  /\ UNCHANGED <<cap, own, remote, sst, username, loop, pid, inq, clients, peer_sockets,
                 logfile, connvars, clock, nextId, got, conv, rejected, dropped, lockvars>>
  /\ NoAnswer
  /\ bc' = NoBc /\ fw' = NoFw

\* a packet another node of the model has sent on this link
PeerRecvQ(s) ==
  /\ pc[s] = "p_recv" /\ remote[s] # NoSock /\ inq[s] # <<>>
  /\ last' = [by |-> s, msg |-> Head(inq[s])]
  /\ inq' = [inq EXCEPT ![s] = Tail(@)]
  /\ PeerLoopBody(s, Head(inq[s]))
  /\ UNCHANGED <<cap, own, remote, sst, username, loop, pid, clients, peer_sockets, logfile,
                 connvars, clock, nmsg, nextId, got, conv, rejected, dropped, lockvars>>
  /\ NoAnswer
  /\ bc' = NoBc /\ fw' = NoFw

\* recv returns b"" or raises
PeerEof(s) ==
  /\ pc[s] = "p_recv" /\ sst[s] = "broken" /\ inq[s] = <<>>
  /\ pc' = [pc EXCEPT ![s] = "p_fin"]
  /\ UNCHANGED <<cap, own, remote, sst, username, loop, cur, pid, inq, tabvars, connvars,
                 clock, nmsg, nextId, got, conv, skipped, rejected, dropped, lockvars>>
  /\ Silent

\* mutant: handle_peer forwards what it has converted
PeerBcast_reforward(s) ==
  /\ pc[s] = "p_bcast"
  /\ DoBroadcast(s, cur[s], NoName)
  /\ conv' = [conv EXCEPT ![own[s]] = Append(@, cur[s])]
  /\ inq' = Deliver(forward_to_peers(own[s], cur[s]).sent, RelayPacket(cur[s]))
  /\ pc' = [pc EXCEPT ![s] = "p_log"]
  /\ UNCHANGED <<cap, own, remote, sst, username, loop, cur, pid, peer_sockets, seen,
                 logfile, connvars, clock, nmsg, nextId, skipped, rejected, dropped, lockvars>>
  /\ NoRead /\ NoAnswer /\ fw' = NoFw

\* server.py:287
PeerBcast(s) ==
  /\ pc[s] = "p_bcast"
  /\ DoBroadcast(s, cur[s], NoName)
  /\ conv' = [conv EXCEPT ![own[s]] = Append(@, cur[s])]
  /\ pc' = [pc EXCEPT ![s] = "p_log"]
  /\ UNCHANGED <<cap, own, remote, sst, username, loop, cur, pid, inq, peer_sockets, seen,
                 logfile, connvars, clock, nmsg, nextId, skipped, rejected, dropped, lockvars>>
  /\ NoRead /\ NoAnswer /\ fw' = NoFw

\* server.py:290: the append, or an OSError caught at server.py:292
PeerLog(s) ==
  /\ pc[s] = "p_log"
  /\ \/ /\ logfile' = [logfile EXCEPT ![own[s]] = Append(@, LogLine(cur[s], clock))]
        /\ pc' = [pc EXCEPT ![s] = "p_recv"]
     \/ /\ logfile' = logfile
        /\ pc' = [pc EXCEPT ![s] = "p_fin"]
  /\ cur' = [cur EXCEPT ![s] = NoRec]
  /\ UNCHANGED <<cap, own, remote, sst, username, loop, pid, inq, clients, peer_sockets,
                 seen, connvars, clock, nmsg, nextId, got, conv, skipped, rejected, dropped,
                 lockvars>>
  /\ Silent

\* closing s: the far end, if it is in the model, sees the stream end
CloseSock(s) ==
  [t \in AllSocks |->
     IF t = s THEN "closed"
     ELSE IF remote[s] # NoSock /\ t = remote[s] /\ sst[t] = "open" THEN "broken"
     ELSE sst[t]]

\* server.py:294-297
PeerFin(s) ==
  /\ pc[s] = "p_fin"
  /\ peer_sockets' = [peer_sockets EXCEPT ![own[s]][pid[s]] = NoSock]
  /\ sst' = CloseSock(s)
  /\ pc' = [pc EXCEPT ![s] = "done"]
  /\ UNCHANGED <<cap, own, remote, username, loop, cur, pid, inq, clients, seen, logfile,
                 connvars, clock, nmsg, nextId, got, conv, skipped, rejected, dropped, lockvars>>
  /\ Silent

\* ------------------------------------------------------------- peer_connector
Configured(n) == {p \in Node : cpc[n][p] # "none"}

\* server.py:232-233: socket() and connect(), or the except branch
ConnConnect(n, p) ==
  /\ cpc[n][p] = "connect"
  /\ IF reachable[p]
       THEN /\ cpc' = [cpc EXCEPT ![n][p] = "hello"]
            /\ sst' = [sst EXCEPT ![OutSock(n, p)] = "open"]
       ELSE /\ cpc' = [cpc EXCEPT ![n][p] = "sleep"]
            /\ sst' = sst
  /\ UNCHANGED <<cap, own, remote, pc, username, loop, cur, pid, inq, tabvars, reachable,
                 retried, clock, nmsg, nextId, got, conv, skipped, rejected, dropped, lockvars>>
  /\ Silent

\* server.py:236-248: the handshake, the registration, the handler thread,
\* or the except branch when the send fails
ConnHello(n, p) ==
  /\ cpc[n][p] = "hello"
  /\ IF SendOk(OutSock(n, p))
       THEN /\ peer_sockets' = [peer_sockets EXCEPT ![n][p] = OutSock(n, p)]
            /\ pc' = [pc EXCEPT ![OutSock(n, p)] = "p_recv"]
            /\ pid' = [pid EXCEPT ![OutSock(n, p)] = p]
            /\ cpc' = [cpc EXCEPT ![n][p] = "returned"]
            /\ reply' = [to |-> OutSock(n, p), text |-> "hello"]
       ELSE /\ cpc' = [cpc EXCEPT ![n][p] = "sleep"]
            /\ NoAnswer
            /\ UNCHANGED <<peer_sockets, pc, pid>>
  /\ UNCHANGED <<cap, own, remote, sst, username, loop, cur, inq, clients, seen, logfile,
                 reachable, retried, clock, nmsg, nextId, got, conv, skipped, rejected, dropped,
                 lockvars>>
  /\ NoRead /\ bc' = NoBc /\ fw' = NoFw

\* mutant: the connector thread ends after a failed attempt
ConnGiveUp(n, p) ==
  /\ cpc[n][p] = "sleep"
  /\ cpc' = [cpc EXCEPT ![n][p] = "returned"]
  /\ retried' = retried
  /\ UNCHANGED <<sockvars, tabvars, reachable, clock, nmsg, nextId, got, conv, skipped, rejected, dropped,
                 lockvars>>
  /\ Silent

\* server.py:251: time.sleep(2), then the next iteration
ConnRetry(n, p) ==
  /\ cpc[n][p] = "sleep"
  /\ cpc' = [cpc EXCEPT ![n][p] = "connect"]
  /\ retried' = [retried EXCEPT ![n] = @ \cup {p}]
  /\ UNCHANGED <<sockvars, tabvars, reachable, clock, nmsg, nextId, got, conv, skipped, rejected, dropped,
                 lockvars>>
  /\ Silent

\* the peer's listener goes down: connects are refused, and a socket on which
\* the handshake has not been sent yet is reset
PeerDown(n, p) ==
  /\ cpc[n][p] # "none" /\ reachable[p]
  /\ reachable' = [reachable EXCEPT ![p] = FALSE]
  /\ sst' = IF cpc[n][p] = "hello" THEN [sst EXCEPT ![OutSock(n, p)] = "broken"] ELSE sst
  /\ UNCHANGED <<cap, own, remote, pc, username, loop, cur, pid, inq, tabvars, cpc, retried,
                 clock, nmsg, nextId, got, conv, skipped, rejected, dropped, lockvars>>
  /\ Silent

PeerUp(n, p) ==
  /\ cpc[n][p] # "none" /\ ~reachable[p]
  /\ reachable' = [reachable EXCEPT ![p] = TRUE]
  /\ UNCHANGED <<sockvars, tabvars, cpc, retried, clock, nmsg, nextId, got, conv, skipped,
                 rejected, dropped, lockvars>>
  /\ Silent

\* time passes between two readings of time.time()
Tick ==
  /\ clock < MaxClock
  /\ clock' = clock + 1
  /\ UNCHANGED <<sockvars, tabvars, connvars, nmsg, nextId, got, conv, skipped, rejected, dropped, lockvars>>
  /\ Silent

\* ------------------------------------------------------------- specifications
\* what every initial state shares: empty tables' companions and ghosts
Fresh ==
  /\ cur = [s \in AllSocks |-> NoRec]
  /\ inq = [s \in AllSocks |-> <<>>]
  /\ seen = [n \in Node |-> {}]
  /\ logfile = [n \in Node |-> <<>>]
  /\ reachable = [p \in Node |-> TRUE]
  /\ retried = [n \in Node |-> {}]
  /\ clock = 0
  /\ nmsg = 0
  /\ nextId = 1
  /\ last = NoLast
  /\ reply = NoReply
  /\ bc = NoBc
  /\ fw = NoFw
  /\ got = [s \in AllSocks |-> <<>>]
  /\ conv = [n \in Node |-> <<>>]
  /\ skipped = [n \in Node |-> {}]
  /\ rejected = {}
  /\ dropped = [s \in AllSocks |-> <<>>]
  /\ lock = [l \in Locks |-> NoSock]
  /\ at = [t \in Threads |-> Outside]
  /\ touched = NoTouch

\* Node A after __init__ with peers = []: two accepted sockets, each with
\* its route_connection thread waiting for the first message.
Init ==
  /\ Fresh
  /\ cap = MaxMsgs
  /\ own = [s \in AllSocks |-> "A"]
  /\ remote = [s \in AllSocks |-> NoSock]
  /\ pc = [s \in AllSocks |-> IF s \in AccSocks THEN "route" ELSE "unused"]
  /\ sst = [s \in AllSocks |-> IF s \in AccSocks THEN "open" ELSE "closed"]
  /\ username = [s \in AllSocks |-> NoName]
  /\ loop = [s \in AllSocks |-> "none"]
  /\ pid = [s \in AllSocks |-> NoPid]
  /\ clients = [n \in Node |-> [u \in Names |-> NoSock]]
  /\ peer_sockets = [n \in Node |-> [p \in Node |-> NoSock]]
  /\ cpc = [n \in Node |-> [p \in Node |-> "none"]]

ClientNext ==
  \E s \in AllSocks :
    \/ \E m \in ClientMsgs : Route(s, m)
    \/ RouteEof(s)
    \/ \E m \in ClientMsgs : ClientRecv(s, m)
    \/ ClientEof(s)
    \/ ClientWelcome(s)
    \/ ClientJoin(s)
    \/ ClientBcast(s)
    \/ ClientFwd(s)
    \/ ClientLog(s)
    \/ ClientFinPop(s)
    \/ ClientFinBcast(s)
    \/ Drop(s)

Next == ClientNext

Spec == Init /\ [][Next]_vars

\* Node A with peers = [B]: alice is logged in on socket ca and reads in the
\* second loop; the connector for B has registered oAB and returned; the
\* router has accepted socket ia, read hello{from_server: C} on it and
\* registered it.
InitPeers ==
  /\ Fresh
  /\ cap = MaxPeerMsgs
  /\ own = [s \in AllSocks |-> "A"]
  /\ remote = [s \in AllSocks |-> NoSock]
  /\ pc = [s \in AllSocks |-> IF s = "ca" THEN "c_recv"
                              ELSE IF s \in {"ia", "oAB"} THEN "p_recv" ELSE "unused"]
  /\ sst = [s \in AllSocks |-> IF s \in {"ca", "ia", "oAB"} THEN "open" ELSE "closed"]
  /\ username = [s \in AllSocks |-> IF s = "ca" THEN "alice" ELSE NoName]
  /\ loop = [s \in AllSocks |-> IF s = "ca" THEN "second" ELSE "none"]
  /\ pid = [s \in AllSocks |-> IF s = "oAB" THEN "B" ELSE IF s = "ia" THEN "C" ELSE NoPid]
  /\ clients = [n \in Node |-> [u \in Names |->
                  IF n = "A" /\ u = "alice" THEN "ca" ELSE NoSock]]
  /\ peer_sockets = [n \in Node |-> [p \in Node |->
                       IF n = "A" /\ p = "B" THEN "oAB"
                       ELSE IF n = "A" /\ p = "C" THEN "ia" ELSE NoSock]]
  /\ cpc = [n \in Node |-> [p \in Node |->
              IF n = "A" /\ p = "B" THEN "returned" ELSE "none"]]

\* a logged-in client's traffic and the end of its session
ChatNext ==
  \E s \in AllSocks :
    \/ \E m \in ChatMsgs : ClientRecv(s, m)
    \/ ClientEof(s)
    \/ ClientBcast(s)
    \/ ClientFwd(s)
    \/ ClientLog(s)
    \/ ClientFinPop(s)
    \/ ClientFinBcast(s)
    \/ Drop(s)

PeerNext ==
  \E s \in AllSocks :
    \/ \E m \in PeerMsgs : PeerRecv(s, m)
    \/ PeerEof(s)
    \/ PeerBcast(s)
    \/ PeerLog(s)
    \/ PeerFin(s)

NextPeers == ChatNext \/ PeerNext

SpecPeers == InitPeers /\ [][NextPeers]_vars

\* Node A after __init__ with peers = [B, C] and connect_to_peers: one
\* connector thread per peer, no outbound socket yet, and one accepted socket
\* ia whose router waits for the first message.
InitConn ==
  /\ Fresh
  /\ cap = MaxPeerMsgs
  /\ own = [s \in AllSocks |-> "A"]
  /\ remote = [s \in AllSocks |-> NoSock]
  /\ pc = [s \in AllSocks |-> IF s \in {"oAB", "oAC"} THEN "idle"
                              ELSE IF s = "ia" THEN "route" ELSE "unused"]
  /\ sst = [s \in AllSocks |-> IF s = "ia" THEN "open" ELSE "closed"]
  /\ username = [s \in AllSocks |-> NoName]
  /\ loop = [s \in AllSocks |-> "none"]
  /\ pid = [s \in AllSocks |-> NoPid]
  /\ clients = [n \in Node |-> [u \in Names |-> NoSock]]
  /\ peer_sockets = [n \in Node |-> [p \in Node |-> NoSock]]
  /\ cpc = [n \in Node |-> [p \in Node |->
              IF n = "A" /\ p \in {"B", "C"} THEN "connect" ELSE "none"]]

\* the handshake of a peer that connects to this node
HelloNext ==
  \E s \in AllSocks :
    \/ \E p \in {"B", "C"} : Route(s, Hello(p))
    \/ RouteEof(s)

ConnNext ==
  \E n \in Node, p \in Node :
    \/ ConnConnect(n, p)
    \/ ConnHello(n, p)
    \/ ConnRetry(n, p)
    \/ PeerDown(n, p)
    \/ PeerUp(n, p)

\* a link ends: the far end goes away and the handler of the link terminates
DropNext ==
  \E s \in AllSocks :
    \/ Drop(s)
    \/ PeerEof(s)
    \/ PeerFin(s)

NextConn == ConnNext \/ HelloNext \/ DropNext

\* a connector thread is a running thread: each of its steps is taken
ConnFair ==
  \A n \in Node, p \in Node :
    /\ WF_vars(ConnConnect(n, p))
    /\ WF_vars(ConnHello(n, p))
    /\ WF_vars(ConnRetry(n, p))

SpecConn == InitConn /\ [][NextConn]_vars /\ ConnFair

\* Two nodes A and B, each with the other as sole peer, after both
\* handshakes: oAB (A's connector) is connected to ib (B's router) and oBA
\* (B's connector) to ia (A's router); each table holds the link that was
\* registered last.  alice is logged in on A (socket ca), bob on B (cb).
InitTwo ==
  /\ Fresh
  /\ cap = MaxPeerMsgs
  /\ own = [s \in AllSocks |-> IF s \in {"cb", "ib", "oBA"} THEN "B" ELSE "A"]
  /\ remote = [s \in AllSocks |->
                 IF s = "oAB" THEN "ib" ELSE IF s = "ib" THEN "oAB"
                 ELSE IF s = "oBA" THEN "ia" ELSE IF s = "ia" THEN "oBA" ELSE NoSock]
  /\ pc = [s \in AllSocks |-> IF s \in {"ca", "cb"} THEN "c_recv"
                              ELSE IF s \in {"oAB", "ib", "oBA", "ia"} THEN "p_recv"
                              ELSE "unused"]
  /\ sst = [s \in AllSocks |->
              IF s \in {"ca", "cb", "oAB", "ib", "oBA", "ia"} THEN "open" ELSE "closed"]
  /\ username = [s \in AllSocks |-> IF s = "ca" THEN "alice"
                                    ELSE IF s = "cb" THEN "bob" ELSE NoName]
  /\ loop = [s \in AllSocks |-> IF s \in {"ca", "cb"} THEN "second" ELSE "none"]
  /\ pid = [s \in AllSocks |-> IF s \in {"oAB", "ia"} THEN "B"
                               ELSE IF s \in {"oBA", "ib"} THEN "A" ELSE NoPid]
  /\ clients = [n \in Node |-> [u \in Names |->
                  IF n = "A" /\ u = "alice" THEN "ca"
                  ELSE IF n = "B" /\ u = "bob" THEN "cb" ELSE NoSock]]
  /\ cpc = [n \in Node |-> [p \in Node |->
              IF (n = "A" /\ p = "B") \/ (n = "B" /\ p = "A") THEN "returned" ELSE "none"]]
  /\ \E la \in {"oAB", "ia"} : \E lb \in {"oBA", "ib"} :
       peer_sockets = [n \in Node |-> [p \in Node |->
                         IF n = "A" /\ p = "B" THEN la
                         ELSE IF n = "B" /\ p = "A" THEN lb ELSE NoSock]]

\* the two clients chat or quit and stay connected; the links carry what the
\* nodes forward
TalkNext ==
  \E s \in AllSocks :
    \/ \E m \in {Msg(t) : t \in Texts} \cup {Quit} : ClientRecv(s, m)
    \/ ClientBcast(s)
    \/ ClientFwd(s)
    \/ ClientLog(s)
    \/ ClientFinPop(s)
    \/ ClientFinBcast(s)

LinkNext ==
  \E s \in AllSocks :
    \/ PeerRecvQ(s)
    \/ PeerEof(s)
    \/ PeerBcast(s)
    \/ PeerLog(s)
    \/ PeerFin(s)

NextTwo == TalkNext \/ LinkNext \/ Tick

SpecTwo == InitTwo /\ [][NextTwo]_vars

\* the complete lines that may follow the first line in the first chunk
Rests == {<<>>, <<Msg("hi")>>, <<Login("bob"), Msg("hi")>>}

\* Node A after __init__ with peers = []: two accepted sockets, whose first
\* chunk may carry more than the first line.
InitRoute ==
  /\ Fresh
  /\ cap = MaxPeerMsgs
  /\ own = [s \in AllSocks |-> "A"]
  /\ remote = [s \in AllSocks |-> NoSock]
  /\ pc = [s \in AllSocks |-> IF s \in AccSocks THEN "route" ELSE "unused"]
  /\ sst = [s \in AllSocks |-> IF s \in AccSocks THEN "open" ELSE "closed"]
  /\ username = [s \in AllSocks |-> NoName]
  /\ loop = [s \in AllSocks |-> "none"]
  /\ pid = [s \in AllSocks |-> NoPid]
  /\ clients = [n \in Node |-> [u \in Names |-> NoSock]]
  /\ peer_sockets = [n \in Node |-> [p \in Node |-> NoSock]]
  /\ cpc = [n \in Node |-> [p \in Node |-> "none"]]

\* a client or a peer whose first write holds several lines
ChunkNext ==
  \E s \in AllSocks : \E m \in ClientMsgs \cup {Hello("B")} : \E rest \in Rests :
    RouteChunk(s, m, rest)

NextRoute == ChunkNext \/ ClientNext \/ PeerNext

SpecRoute == InitRoute /\ [][NextRoute]_vars

\* Three nodes in a line, A - B - C, after the handshakes: A has peers = [B]
\* (oAB, accepted by B as ib), B has peers = [C] (oBC, accepted by C as ic),
\* C has none.  alice is logged in on A, bob on B, carol on C.
InitChain ==
  /\ Fresh
  /\ cap = MaxPeerMsgs
  /\ own = [s \in AllSocks |-> IF s \in {"cb", "ib", "oBA", "oBC"} THEN "B"
                               ELSE IF s \in {"cc", "ic"} THEN "C" ELSE "A"]
  /\ remote = [s \in AllSocks |->
                 IF s = "oAB" THEN "ib" ELSE IF s = "ib" THEN "oAB"
                 ELSE IF s = "oBC" THEN "ic" ELSE IF s = "ic" THEN "oBC" ELSE NoSock]
  /\ pc = [s \in AllSocks |-> IF s \in {"ca", "cb", "cc"} THEN "c_recv"
                              ELSE IF s \in {"oAB", "ib", "oBC", "ic"} THEN "p_recv"
                              ELSE "unused"]
  /\ sst = [s \in AllSocks |->
              IF s \in {"ca", "cb", "cc", "oAB", "ib", "oBC", "ic"} THEN "open"
              ELSE "closed"]
  /\ username = [s \in AllSocks |-> IF s = "ca" THEN "alice" ELSE IF s = "cb" THEN "bob"
                                    ELSE IF s = "cc" THEN "carol" ELSE NoName]
  /\ loop = [s \in AllSocks |-> IF s \in {"ca", "cb", "cc"} THEN "second" ELSE "none"]
  /\ pid = [s \in AllSocks |-> IF s \in {"oAB", "ic"} THEN "B"
                               ELSE IF s = "ib" THEN "A"
                               ELSE IF s = "oBC" THEN "C" ELSE NoPid]
  /\ clients = [n \in Node |-> [u \in Names |->
                  IF n = "A" /\ u = "alice" THEN "ca"
                  ELSE IF n = "B" /\ u = "bob" THEN "cb"
                  ELSE IF n = "C" /\ u = "carol" THEN "cc" ELSE NoSock]]
  /\ peer_sockets = [n \in Node |-> [p \in Node |->
                       IF n = "A" /\ p = "B" THEN "oAB"
                       ELSE IF n = "B" /\ p = "A" THEN "ib"
                       ELSE IF n = "B" /\ p = "C" THEN "oBC"
                       ELSE IF n = "C" /\ p = "B" THEN "ic" ELSE NoSock]]
  /\ cpc = [n \in Node |-> [p \in Node |->
              IF (n = "A" /\ p = "B") \/ (n = "B" /\ p = "C") THEN "returned" ELSE "none"]]

\* alice chats and stays connected; bob and carol listen
ChainTalkNext ==
  \/ \E m \in {Msg(t) : t \in Texts} : ClientRecv("ca", m)
  \/ \E s \in AllSocks :
       \/ ClientBcast(s)
       \/ ClientFwd(s)
       \/ ClientLog(s)
       \/ ClientFinPop(s)
       \/ ClientFinBcast(s)

NextChain == ChainTalkNext \/ LinkNext

SpecChain == InitChain /\ [][NextChain]_vars

\* ------------------------------------------------------------- claims
\* a session in the Active state of handle_client: logged in, in one of the
\* two loops, the finally block not yet entered
ActivePcs == {"c_welcome", "c_join", "c_recv", "c_bcast", "c_fwd", "c_log"}
Active(s) == username[s] # NoName /\ pc[s] \in ActivePcs

\* C1: on one node at most one Active session exists under a username at any
\* time, whatever the interleaving of logins, send failures and disconnects.
C1_OneActivePerName ==
  \A s \in AllSocks : \A t \in AllSocks :
    (Active(s) /\ Active(t) /\ own[s] = own[t] /\ username[s] = username[t]) => s = t

\* C2: once a client handler has terminated, no name of the registry is
\* still held by its socket, so the name it used is free for a new login.
C2_NameReleased ==
  \A s \in AllSocks :
    pc[s] = "done" => \A u \in Names : clients[own[s]][u] # s

\* C3: a broadcast_local call attempts exactly one send to every session
\* registered at the call except the excluded one; a join notice excludes
\* the joining name, a chat record excludes nobody.
C3_BroadcastOnce ==
  bc.by # NoSock =>
    /\ Range(bc.attempts) = bc.before \ {bc.exclude}
    /\ Len(bc.attempts) = Cardinality(Range(bc.attempts))
    /\ (bc.rec.type = "msg" => bc.exclude = NoName)
    /\ (bc.rec.type = "system" /\ bc.rec.text[2] = "joined the chat"
          => bc.exclude = bc.rec.text[1] /\ bc.exclude = username[bc.by])

C3_Witness ==
  /\ bc.rec = Joined("bob")
  /\ bc.before = {"alice", "bob"}
  /\ bc.attempts = <<"alice">>

\* the step just taken made the thread of s read a login in the code that
\* handles logins (server.py:95-108: the first loop)
LoginHandled(s) ==
  /\ last'.by = s /\ last'.msg.type = "login"
  /\ pc[s] = "route" \/ (pc[s] = "c_recv" /\ loop[s] = "stream")

C10_RetryAccepted ==
  [][\A s \in AllSocks :
       LET name == Strip(last'.msg.username) IN
       (/\ s \in rejected /\ username[s] = NoName /\ pc[s] = "c_recv"
        /\ last'.by = s /\ last'.msg.type = "login"
        /\ name # NoName /\ clients[own[s]][name] = NoSock) =>
         /\ clients'[own[s]][name] = s
         /\ username'[s] = name]_vars

\* C4: on one node no two conversions of relay packets (local broadcasts by
\* handle_peer, and the log appends that follow them) carry the same
\* fingerprint, however often and on however many links the packet arrives.
C4_ConvertedOnce ==
  \A n \in Node :
    /\ \A i \in DOMAIN conv[n] : \A j \in DOMAIN conv[n] :
         RecFingerprint(conv[n][i]) = RecFingerprint(conv[n][j]) => i = j
    /\ \A i \in DOMAIN logfile[n] : \A j \in DOMAIN logfile[n] :
         (/\ logfile[n][i].server # n
          /\ RecFingerprint(logfile[n][i]) = RecFingerprint(logfile[n][j])) => i = j
    /\ \A s \in AllSocks : \A t \in AllSocks :
         (/\ own[s] = n /\ own[t] = n
          /\ pc[s] \in {"p_bcast", "p_log"} /\ pc[t] \in {"p_bcast", "p_log"}
          /\ RecFingerprint(cur[s]) = RecFingerprint(cur[t])) => s = t

\* a packet arrives on one link while the handler of another link is still
\* converting the same packet, and is skipped
C4_Witness ==
  /\ last.msg \in EnvPackets
  /\ last.msg \in skipped["A"]
  /\ \E s \in AllSocks :
       /\ s # last.by
       /\ pc[s] \in {"p_bcast", "p_log"}
       /\ RecFingerprint(cur[s]) = Fingerprint(last.msg)

\* C5: a forward_to_peers call made for a client's msg attempts one send on
\* every registered link, removes exactly the links whose send failed, and
\* leaves the sender Active (about to log) with the record already delivered
\* to the clients that are registered.
C5_ForwardIsolation ==
  fw.by # NoSock =>
    LET n == own[fw.by] IN
    /\ Range(fw.attempts) = fw.before
    /\ Len(fw.attempts) = Cardinality(fw.before)
    /\ Range(fw.failed) \subseteq fw.before
    /\ \A p \in Node :
         peer_sockets[n][p] # NoSock <=> p \in fw.before \ Range(fw.failed)
    /\ Active(fw.by) /\ pc[fw.by] = "c_log"
    /\ fw.rec.type = "msg" /\ fw.rec.from = username[fw.by] /\ fw.rec.server = n
    /\ \A u \in Registered(n) : fw.rec.id \in Range(got[clients[n][u]])

C5_Witness ==
  /\ fw.by = "ca"
  /\ fw.attempts = <<"B", "C">>
  /\ fw.failed = <<"B">>
  /\ peer_sockets["A"]["C"] = "ia"
  /\ clients["A"]["alice"] = "ca"

\* C6: a connector leaves its loop only by a handshake that was sent, and
\* then the link is registered under the peer-id and its handler started;
\* after a failed connect or handshake it sleeps and tries again; if the
\* peer is reachable from some point on, the connector eventually succeeds.
C6_ConnectorPersists ==
  /\ [][\A p \in Node :
          LET o == OutSock("A", p)
              before == cpc["A"][p]
              after == cpc'["A"][p]
          IN /\ (before = "sleep" => after \in {"sleep", "connect"})
             /\ (before = "connect" /\ after # before) =>
                  after = (IF reachable[p] THEN "hello" ELSE "sleep")
             /\ (before = "hello" /\ after # before) =>
                  IF SendOk(o)
                    THEN /\ after = "returned"
                         /\ reply' = [to |-> o, text |-> "hello"]
                         /\ peer_sockets'["A"][p] = o
                         /\ pid'[o] = p
                         /\ pc'[o] = "p_recv"
                    ELSE after = "sleep"
             /\ (after = "returned" => before \in {"hello", "returned"})]_vars
  /\ \A p \in {"B", "C"} :
       <>[]reachable[p] => <>(cpc["A"][p] = "returned")

C6_Witness ==
  /\ "B" \in retried["A"]
  /\ cpc["A"]["B"] = "returned"
  /\ peer_sockets["A"]["B"] = "oAB"
  /\ pc["oAB"] = "p_recv" /\ pid["oAB"] = "B"

\* the link the connector established to p has ended: its handler has run
\* its finally block
LinkDropped(p) == cpc["A"][p] = "returned" /\ pc[OutSock("A", p)] = "done"

\* C7: after the established link to a configured peer has dropped, a
\* connector for that peer eventually runs again.
C7_RetryAfterDrop ==
  \A p \in {"B", "C"} :
    [](LinkDropped(p) => <>(cpc["A"][p] \in {"connect", "hello", "sleep"}))

\* both nodes are at rest: every thread waits for input, every socket is
\* open, nothing is in flight
Quiet ==
  /\ \A s \in {"ca", "cb"} : pc[s] = "c_recv" /\ sst[s] = "open"
  /\ \A s \in {"oAB", "ib", "oBA", "ia"} :
       pc[s] = "p_recv" /\ sst[s] = "open" /\ inq[s] = <<>>

Count(seq, x) == Cardinality({k \in DOMAIN seq : seq[k] = x})

\* the lines of node n's log written for the chat record with serial i
LinesFor(n, i) == {k \in DOMAIN logfile[n] : logfile[n][k].id = i}

\* C8: at rest, every msg that alice sent on A has reached alice and bob
\* exactly once, and each node's log holds exactly one line for it, with
\* server = A and from = alice.
C8_ExactlyOnce ==
  Quiet =>
    \A k \in DOMAIN logfile["A"] :
      LET l == logfile["A"][k] IN
      l.server = "A" =>
        /\ l.from = "alice"
        /\ LinesFor("A", l.id) = {k}
        /\ Cardinality(LinesFor("B", l.id)) = 1
        /\ \A j \in LinesFor("B", l.id) :
             /\ logfile["B"][j].server = "A"
             /\ logfile["B"][j].from = "alice"
             /\ logfile["B"][j].text = l.text
        /\ Count(got["ca"], l.id) = 1
        /\ Count(got["cb"], l.id) = 1

\* C11: a message read by handle_client that is neither quit nor valid in the
\* session's state (anything but login before a login has succeeded, anything
\* but msg while logged in) is answered with "invalid request", and the
\* handler goes back to reading on the open socket.
C11_InvalidRequest ==
  [][\A s \in AllSocks :
       LET m == last'.msg IN
       (/\ last'.by = s /\ pc[s] \in {"route", "c_recv"}
        /\ m.type \notin {"malformed", "quit", "hello"}
        /\ \/ username[s] = NoName /\ m.type # "login"
           \/ username[s] # NoName /\ m.type # "msg"
        /\ SendOk(s)) =>
         /\ reply' = [to |-> s, text |-> "invalid request"]
         /\ pc'[s] = "c_recv"
         /\ sst'[s] = "open"]_vars

\* the positions of a handle_client thread inside its try block
ClientPcs == {"c_recv", "c_welcome", "c_join", "c_bcast", "c_fwd", "c_log"}

\* C12: a client handler leaves its loops only into the finally block, runs
\* the block once and never again: with a username it pops the name, then
\* broadcasts one leave notice to every session still registered and closes
\* the socket; without one it changes no entry, broadcasts nothing and closes.
C12_CleanupOnce ==
  [][\A s \in AllSocks :
       LET n == own[s] IN
       /\ (pc[s] \in ClientPcs /\ pc'[s] \notin ClientPcs) => pc'[s] = "f_pop"
       /\ (pc[s] = "f_pop" /\ pc'[s] # "f_pop") =>
            IF username[s] # NoName
              THEN /\ pc'[s] = "f_bcast"
                   /\ clients'[n][username[s]] = NoSock
                   /\ \A u \in Names \ {username[s]} : clients'[n][u] = clients[n][u]
                   /\ bc' = NoBc
              ELSE /\ pc'[s] = "done" /\ sst'[s] = "closed"
                   /\ clients' = clients
                   /\ bc' = NoBc
       /\ (pc[s] = "f_bcast" /\ pc'[s] # "f_bcast") =>
            /\ pc'[s] = "done" /\ sst'[s] = "closed"
            /\ bc'.by = s /\ bc'.rec = Left(username[s]) /\ bc'.exclude = NoName
            /\ Range(bc'.attempts) = Registered(n)
            /\ Len(bc'.attempts) = Cardinality(Registered(n))
       /\ (bc'.by = s /\ bc'.rec.type = "system" /\ bc'.rec.text[2] = "left the chat")
            => pc[s] = "f_bcast"
       /\ pc[s] = "done" => (pc'[s] = "done" /\ bc'.by # s /\ sst'[s] = "closed")]_vars

\* alice's handler has finished: bob, still registered, was sent the notice
C12_Witness ==
  /\ bc.rec = Left("alice")
  /\ bc.attempts = <<"bob">>
  /\ bc.by # NoSock
  /\ pc[bc.by] = "done" /\ sst[bc.by] = "closed"
  /\ clients["A"]["alice"] = NoSock

\* C13: no line that a connection has delivered to the node is thrown away
\* unprocessed when the router hands the connection to its handler.
C13_NothingDropped ==
  \A s \in AllSocks :
    pc[s] \notin {"unused", "idle", "route"} => dropped[s] = <<>>

\* C14: when the append to the log fails (the step leaves the log as it
\* was), the thread that called the logger goes on: a client handler returns
\* to reading with its session registered, a link handler returns to reading
\* with its link registered.
C14_LogFailureContained ==
  [][\A s \in AllSocks :
       /\ (pc[s] = "c_log" /\ pc'[s] # "c_log" /\ logfile' = logfile) =>
            /\ pc'[s] = "c_recv"
            /\ clients' = clients
       /\ (pc[s] = "p_log" /\ pc'[s] # "p_log" /\ logfile' = logfile) =>
            /\ pc'[s] = "p_recv"
            /\ peer_sockets' = peer_sockets]_vars

\* C15: only forward_to_peers, called by a client handler for a record of
\* its own node, puts packets on peer links; a link handler's steps put
\* none.  So every packet in flight comes from the node of its origin, a
\* node converts only records whose origin it is linked to, and C, which has
\* no link to A, delivers none of alice's records to carol.
C15_NoReforward ==
  /\ [](/\ \A t \in AllSocks : \A i \in DOMAIN inq[t] :
             inq[t][i].origin_server = own[remote[t]]
        /\ \A i \in DOMAIN conv["B"] : conv["B"][i].server = "A"
        /\ conv["C"] = <<>> /\ conv["A"] = <<>>
        /\ got["cc"] = <<>>
        /\ fw.by # NoSock => fw.rec.server = own[fw.by])
  /\ [][/\ \A t \in AllSocks :
             \/ inq'[t] = inq[t]
             \/ inq[t] # <<>> /\ inq'[t] = Tail(inq[t])
             \/ fw'.by # NoSock /\ pc[fw'.by] = "c_fwd"
        /\ \A s \in AllSocks :
             (pc[s] \in {"p_recv", "p_bcast", "p_log", "p_fin"} /\ pc'[s] # pc[s]) =>
               /\ fw' = NoFw
               /\ \A t \in AllSocks : t # s => inq'[t] = inq[t]]_vars

\* B has converted and logged alice's record and delivered it to bob while
\* its link to C is registered and open; nothing is in flight
C15_Witness ==
  /\ Len(conv["B"]) = 1 /\ conv["B"][1].from = "alice"
  /\ Len(logfile["B"]) = 1
  /\ got["cb"] = <<conv["B"][1].id>>
  /\ pc["ib"] = "p_recv"
  /\ peer_sockets["B"]["C"] = "oBC" /\ sst["oBC"] = "open" /\ sst["ic"] = "open"
  /\ pc["ic"] = "p_recv"
  /\ \A t \in AllSocks : inq[t] = <<>>

\* C16: in one broadcast_local call every registered, non-excluded session
\* is attempted whether or not an earlier send failed, and when the call
\* (one critical section) is over the registry is what it was before minus
\* exactly the sessions whose send failed.
C16_BroadcastIsolation ==
  bc.by # NoSock =>
    LET n == own[bc.by] IN
    /\ Range(bc.attempts) = bc.before \ {bc.exclude}
    /\ Range(bc.dead) \subseteq Range(bc.attempts)
    /\ Len(bc.sent) + Len(bc.dead) = Len(bc.attempts)
    /\ Registered(n) = bc.before \ Range(bc.dead)
    /\ \A u \in Range(bc.attempts) \ Range(bc.dead) : clients[n][u] \in Range(bc.sent)
    /\ \A t \in Range(bc.sent) : sst[t] = "open" \/ t = bc.by

\* the send to alice failed, and bob, who comes after her, was still served
C16_Witness ==
  /\ bc.rec.type = "msg"
  /\ bc.attempts = <<"alice", "bob">>
  /\ bc.dead = <<"alice">>
  /\ Len(bc.sent) = 1
  /\ clients["A"]["alice"] = NoSock /\ clients["A"]["bob"] = bc.by

\* ------------------------------------------------------- lock discipline

\* the lock a `with` block of server.py takes
WithLock_clients(b) == "clients_lock"

WithLock(b) ==
  CASE b = "login" -> "clients_lock"
    [] b = "fin_pop" -> "clients_lock"
    [] b = "broadcast" -> "clients_lock"
    [] b = "conn_register" -> "peer_lock"
    [] b = "seen_check" -> "seen_lock"
    [] b = "peer_fin" -> "peer_lock"
    [] b = "forward" -> "peer_lock"
    [] b = "route_register" -> "peer_lock"

\* the table the statements inside the block read or write
BlockTable(b) ==
  CASE b = "login" -> "clients"
    [] b = "fin_pop" -> "clients"
    [] b = "broadcast" -> "clients"
    [] b = "conn_register" -> "peer_sockets"
    [] b = "seen_check" -> "seen"
    [] b = "peer_fin" -> "peer_sockets"
    [] b = "forward" -> "peer_sockets"
    [] b = "route_register" -> "peer_sockets"

\* the blocks a thread can come to: a peer_connector registers its socket; the
\* handle_peer thread it starts dedupes, broadcasts and unregisters; a thread
\* started by serve_forever runs route_connection and then either handler
ThreadBlocks(t) ==
  IF t \in Connectors THEN {"conn_register"}
  ELSE IF t \in OutSocks THEN {"seen_check", "broadcast", "peer_fin"}
  ELSE Blocks \ {"conn_register"}

\* `with lock:` entered: blocks until the lock is free, then holds it
Acquire(t, b) ==
  /\ at[t] = Outside
  /\ b \in ThreadBlocks(t)
  /\ lock[WithLock(b)] = NoSock
  /\ lock' = [lock EXCEPT ![WithLock(b)] = t]
  /\ at' = [at EXCEPT ![t] = [block |-> b, done |-> FALSE]]
  /\ touched' = NoTouch
  /\ Silent
  /\ UNCHANGED <<sockvars, tabvars, connvars, clock, nmsg, nextId,
                 got, conv, skipped, rejected, dropped>>

\* the statements of the block read and write its table
Access(t) ==
  /\ at[t].block # "none"
  /\ ~at[t].done
  /\ touched' = [by |-> t, table |-> BlockTable(at[t].block),
                 held |-> {l \in Locks : lock[l] = t}]
  /\ at' = [at EXCEPT ![t].done = TRUE]
  /\ Silent
  /\ UNCHANGED <<sockvars, tabvars, connvars, clock, nmsg, nextId,
                 got, conv, skipped, rejected, dropped, lock>>

\* the block is left, by its end, a continue or an exception
Release(t) ==
  /\ at[t].done
  /\ lock' = [lock EXCEPT ![WithLock(at[t].block)] = NoSock]
  /\ at' = [at EXCEPT ![t] = Outside]
  /\ touched' = NoTouch
  /\ Silent
  /\ UNCHANGED <<sockvars, tabvars, connvars, clock, nmsg, nextId,
                 got, conv, skipped, rejected, dropped>>

\* the threads of node A with peers = [B]: the connector, the handler of its
\* socket and the threads of two accepted sockets
LockThreads == {"a1", "a2", "oAB", "kB"}

InitLocks == Init

NextLocks ==
  \/ \E t \in LockThreads : \E b \in Blocks : Acquire(t, b)
  \/ \E t \in LockThreads : Access(t)
  \/ \E t \in LockThreads : Release(t)

SpecLocks == InitLocks /\ [][NextLocks]_vars

\* C17: whenever a thread reads or writes clients, peer_sockets or seen it
\* holds that table's own lock, and a thread inside a block that touches a
\* table is the holder of that table's lock.
C17_OwnLock ==
  /\ touched.by # NoSock => TableLock(touched.table) \in touched.held
  /\ \A t \in Threads :
       at[t] # Outside => lock[TableLock(BlockTable(at[t].block))] = t

\* a1 forwards (peer_sockets) while a2 is inside a block on clients and the
\* peer handler is inside the dedupe block
C17_Witness ==
  /\ touched.by = "a1"
  /\ touched.table = "peer_sockets"
  /\ at["a2"].block = "broadcast"
  /\ at["oAB"].block = "seen_check"

\* C18: the pop in a client handler's finally block takes away no entry that
\* maps to another connection's socket: every name registered to a socket
\* other than the handler's own is still registered to it after the pop.
C18_OwnEntryOnly ==
  [][\A s \in AllSocks :
       (pc[s] = "f_pop" /\ pc'[s] # "f_pop") =>
         \A u \in Names :
           clients[own[s]][u] \notin {NoSock, s} =>
             clients'[own[s]][u] = clients[own[s]][u]]_vars

\* C19: when the handler of a peer link terminates, the entry of its peer-id
\* is removed only if it still maps to the handler's own socket: a newer link
\* registered under the same peer-id stays registered.
C19_NewerLinkKept ==
  [][\A s \in AllSocks :
       (pc[s] = "p_fin" /\ pc'[s] # "p_fin") =>
         \A p \in Node :
           peer_sockets[own[s]][p] \notin {NoSock, s} =>
             peer_sockets'[own[s]][p] = peer_sockets[own[s]][p]]_vars

\* C20: a msg read from a connection that has no session starts nothing: no
\* record is built, the handler does not enter the broadcast, forward, log
\* sequence, no broadcast or forward happens in the step, and clients,
\* peer_sockets, seen and the log are as before.  Hence every chat record
\* that is broadcast, forwarded or logged carries a sender name.
C20_UnauthenticatedMsg ==
  [][
      /\ \A s \in AllSocks :
          (/\ last'.by = s
           /\ last'.msg.type = "msg"
           /\ username[s] = NoName) =>
            /\ cur'[s] = NoRec
            /\ pc'[s] \notin {"c_bcast", "c_fwd", "c_log"}
            /\ bc' = NoBc /\ fw' = NoFw
            /\ clients' = clients /\ peer_sockets' = peer_sockets
            /\ seen' = seen /\ logfile' = logfile
      /\ \A t \in AllSocks :
          (pc'[t] \in {"c_bcast", "c_fwd", "c_log"} /\ own[t] = "A")
            => (username'[t] # NoName /\ cur'[t].from # NoName)
    ]_vars

\* alice is registered and the other connection, with no session, has just
\* sent a msg: in the first loop it is answered with an error
C20_Witness ==
  /\ last.msg.type = "msg"
  /\ last.by # NoSock
  /\ username[last.by] = NoName
  /\ clients["A"]["alice"] \notin {NoSock, last.by}
  /\ reply = [to |-> last.by, text |-> "invalid request"]

====
